---- MODULE Spec2Model ----
(***************************************************************************)
(* A model of nifpga/niRIO.py: the DataType / FifoPropertyType /           *)
(* FifoProperty tables, and the construction of the _NiRIO binding on top  *)
(* of StatusCheckedLibrary (library load, symbol resolution, the           *)
(* platform-specific LibraryNotFoundError handler) followed by             *)
(* status-checked calls through the bound object.                          *)
(***************************************************************************)
EXTENDS Integers, Sequences, FiniteSets, TLC

VARIABLES
    system,            \* platform.system().lower() as seen by the handler
    libraryPresent,    \* whether NIFLEXRIOAPI can be located by the loader
    symbolPresent,     \* whether niFlexRio_RouteSignal is exported by it
    loaderText,        \* text of the underlying load failure
    construction,      \* "pending", "returned" or "raised": _NiRIO() progress
    binding,           \* "Unbound" or "Bound"
    raised,            \* the exception _NiRIO() raised, or NoException
    loadAttempts,      \* number of times the library load was attempted
    calls,             \* number of native calls made through the binding
    lastCall,          \* the last call made and its outcome, or NoCall
    fifoTable,         \* the module-level dict _fifo_properties_to_types
    history            \* the table lookups made so far, in order

vars == <<system, libraryPresent, symbolPresent, loaderText, construction,
          binding, raised, loadAttempts, calls, lastCall, fifoTable, history>>

bindingVars == <<system, libraryPresent, symbolPresent, loaderText,
                 construction, binding, raised, loadAttempts, calls, lastCall>>

tableVars == <<fifoTable, history>>

----------------------------------------------------------------------------
(* Bounds of the model. *)

MaxLookups == 3
MaxCalls == 2
MaxStatus == 2

----------------------------------------------------------------------------
(* class DataType(Enum) *)

DataType == {"Bool", "I8", "U8", "I16", "U16", "I32", "U32", "I64", "U64",
             "Sgl", "Dbl", "Fxp", "Cluster"}

KeyError == "KeyError"

\* Subscripting a dict: the value under the key, KeyError without one.
DictGet(d, key) == IF key \in DOMAIN d THEN d[key] ELSE KeyError

\* The dict _datatype_ctype built by DataType._return_ctype.
datatype_ctype ==
    ("Bool" :> "c_uint8")
    @@ ("I8" :> "c_int8")
    @@ ("U8" :> "c_uint8")
    @@ ("I16" :> "c_int16")
    @@ ("U16" :> "c_uint16")
    @@ ("I32" :> "c_int32")
    @@ ("U32" :> "c_uint32")
    @@ ("I64" :> "c_int64")
    @@ ("U64" :> "c_uint64")
    @@ ("Sgl" :> "c_float")
    @@ ("Dbl" :> "c_double")
    @@ ("Fxp" :> "c_uint32")
    @@ ("Cluster" :> "c_uint32")

\* _return_ctype answering Fxp with the signed 32-bit type.
DataType_return_ctype_FxpSigned(self) ==
    IF self = "Fxp" THEN "c_int32" ELSE DictGet(datatype_ctype, self)

DataType_return_ctype(self) == DictGet(datatype_ctype, self)

\* isSigned with the floating-point kinds left out of the condition.
isSigned_IntegersOnly(self) ==
    \/ self = "I8"
    \/ self = "I16"
    \/ self = "I32"
    \/ self = "I64"

isSigned(self) ==
    IF \/ self = "I8"
       \/ self = "I16"
       \/ self = "I32"
       \/ self = "I64"
       \/ self = "Sgl"
       \/ self = "Dbl"
    THEN TRUE
    ELSE FALSE

----------------------------------------------------------------------------
(* class FifoPropertyType(Enum), class FifoProperty(Enum) and the dict     *)
(* _fifo_properties_to_types                                               *)

FifoPropertyType == {"I32", "U32", "I64", "U64", "Ptr"}

FifoProperty == {"BytesPerElement", "BufferAllocationGranularityElements",
                 "BufferSizeElements", "MirroredElements", "DmaBufferType",
                 "DmaBuffer", "FlowControl", "ElementsCurrentlyAcquired",
                 "PreferredNumaNode"}

\* The dict with the DmaBuffer entry given the 64-bit integer kind.
fifo_properties_to_types_DmaBufferU64 ==
    [p \in FifoProperty |->
        CASE p = "BytesPerElement" -> "U32"
          [] p = "BufferAllocationGranularityElements" -> "U32"
          [] p = "BufferSizeElements" -> "U64"
          [] p = "MirroredElements" -> "U64"
          [] p = "DmaBufferType" -> "I32"
          [] p = "DmaBuffer" -> "U64"
          [] p = "FlowControl" -> "I32"
          [] p = "ElementsCurrentlyAcquired" -> "U64"
          [] p = "PreferredNumaNode" -> "I32"]

\* The dict as the module defines it: a pair per source line.
fifo_properties_to_types ==
    ("BytesPerElement" :> "U32")
    @@ ("BufferAllocationGranularityElements" :> "U32")
    @@ ("BufferSizeElements" :> "U64")
    @@ ("MirroredElements" :> "U64")
    @@ ("DmaBufferType" :> "I32")
    @@ ("DmaBuffer" :> "Ptr")
    @@ ("FlowControl" :> "I32")
    @@ ("ElementsCurrentlyAcquired" :> "U64")
    @@ ("PreferredNumaNode" :> "I32")

----------------------------------------------------------------------------
(* Table lookups, one action per method or subscript.  Each appends what   *)
(* the caller saw to the history.                                          *)

CanLookup == Len(history) < MaxLookups

ReturnCtype(k) ==
    /\ CanLookup
    /\ history' = Append(history, [op |-> "_return_ctype", key |-> k,
                                   result |-> DataType_return_ctype(k)])
    /\ UNCHANGED <<fifoTable, bindingVars>>

IsSigned(k) ==
    /\ CanLookup
    /\ history' = Append(history, [op |-> "isSigned", key |-> k,
                                   result |-> isSigned(k)])
    /\ UNCHANGED <<fifoTable, bindingVars>>

FifoPropertyLookup(p) ==
    /\ CanLookup
    /\ history' = Append(history, [op |-> "_fifo_properties_to_types",
                                   key |-> p,
                                   result |-> DictGet(fifoTable, p)])
    /\ UNCHANGED <<fifoTable, bindingVars>>

----------------------------------------------------------------------------
(* Exceptions are records of their class and of what str() gives for them. *)

NoException == [cls |-> "None", msg |-> ""]

LibraryNotFoundError(msg) == [cls |-> "LibraryNotFoundError", msg |-> msg]

MissingSymbolError(msg) == [cls |-> "MissingSymbolError", msg |-> msg]

\* str(e) of an exception built from one message.
Str(e) == e.msg

\* What platform.system().lower() can give: the three names the handler
\* tests for, another system's name, and the empty string of an
\* undetermined system.
Systems == {"windows", "linux", "darwin", "java", ""}

\* The failure texts the loader may report.
LoaderTexts == {"NIFLEXRIOAPI: cannot open shared object file: No such file or directory",
                "[WinError 126] The specified module could not be found",
                ""}

----------------------------------------------------------------------------
(* StatusCheckedLibrary, the base class of _NiRIO.                         *)

\* The function infos _NiRIO.__init__ hands to the base class.
library_function_infos ==
    << [pretty_name |-> "Route_Signal",
        name_in_library |-> "niFlexRio_RouteSignal",
        named_argtypes |-> << [name |-> "session", argtype |-> "c_uint32"],
                              [name |-> "source", argtype |-> "c_char_p"],
                              [name |-> "destination", argtype |-> "c_char_p"],
                              [name |-> "routeTicket",
                               argtype |-> "POINTER(c_int32)"] >>] >>

\* StatusCheckedLibrary.__init__: load the library by name, then resolve
\* every function info's name_in_library in it.  Gives the exception
\* raised, NoException when the object is bound.
StatusCheckedLibrary_init(present, symbol, text) ==
    IF ~present THEN LibraryNotFoundError(text)
    ELSE IF ~symbol
         THEN MissingSymbolError(library_function_infos[1].name_in_library)
    ELSE NoException

\* The registry of known status codes.
KnownCodes == (-50400 :> "FifoTimeout") @@ (-61003 :> "FpgaAlreadyRunning")

StatusCodes == (-MaxStatus .. MaxStatus) \cup DOMAIN KnownCodes

WarningCodes == {n \in StatusCodes : n > 0}

Band(n) == IF n = 0 THEN "Success" ELSE IF n > 0 THEN "Warning" ELSE "Error"

\* The status check with unregistered warning codes let through.
CheckStatus_KnownOnly(function, n, tolerated) ==
    [band |-> Band(n),
     raises |-> n < 0 \/ (n > 0 /\ n \in DOMAIN KnownCodes),
     code |-> n,
     function |-> function,
     name |-> IF n \in DOMAIN KnownCodes THEN KnownCodes[n] ELSE "Unknown"]

\* The status check made on every call's return value: the condition the
\* call ends with and whether it is raised.
CheckStatus(function, n, tolerated) ==
    [band |-> Band(n),
     raises |-> n < 0 \/ (n > 0 /\ n \notin tolerated),
     code |-> n,
     function |-> function,
     name |-> IF n \in DOMAIN KnownCodes THEN KnownCodes[n] ELSE "Unknown"]

----------------------------------------------------------------------------
(* class _NiRIO(StatusCheckedLibrary)                                      *)

WindowsMessage(e) ==
    "Unable to find NiFpga.dll on your system, "
    \o "ensure you have installed the relevent RIO distribution for your device. "
    \o "Search for your product here: http://www.ni.com/downloads/ni-drivers/ "
    \o "Original Exception: " \o Str(e)

LinuxMessage(e) ==
    "Unable to find libNiFpga.so on your system, "
    \o "If you are on desktop linux, ensure you have installed the latest "
    \o "RIO Linux distribution for your product, such as https://www.ni.com/en-us/support/downloads/drivers/download.ni-linux-device-drivers.html "
    \o "If you are on a Linux RT embedded target (cRIO, sbRIO, FlexRIO, Industrial Controller, etc) install NI-RIO to your target "
    \o "though MAX following these instructions: https://www.ni.com/getting-started/set-up-hardware/compactrio/controller-software "
    \o "Original Exception: " \o Str(e)

DarwinMessage(e) ==
    "Unable to find NiFpga.Framework on your system, "
    \o "Sorry we don't yet support using RIO Devices on OSX, contact your sales person "
    \o "for the latest information on OSX support. "
    \o "Original Exception: " \o Str(e)

\* The body of "except LibraryNotFoundError as e": the exception it raises.
Handler(sys, e) ==
    IF sys = "windows" THEN LibraryNotFoundError(WindowsMessage(e))
    ELSE IF sys = "linux" THEN LibraryNotFoundError(LinuxMessage(e))
    ELSE IF sys = "darwin" THEN LibraryNotFoundError(DarwinMessage(e))
    ELSE e

\* _NiRIO.__init__ with the darwin message ending before str(e).
NiRIO_init_NoOriginal(sys, present, symbol, text) ==
    LET e == StatusCheckedLibrary_init(present, symbol, text) IN
    [exc |-> IF e.cls = "LibraryNotFoundError"
             THEN IF sys = "darwin"
                  THEN LibraryNotFoundError(DarwinMessage(NoException))
                  ELSE Handler(sys, e)
             ELSE e,
     loads |-> 1]

\* _NiRIO.__init__ ending with its own message where the code has "raise".
NiRIO_init_OwnFallback(sys, present, symbol, text) ==
    LET e == StatusCheckedLibrary_init(present, symbol, text) IN
    [exc |-> IF e.cls = "LibraryNotFoundError"
             THEN IF sys \in {"windows", "linux", "darwin"}
                  THEN Handler(sys, e)
                  ELSE LibraryNotFoundError("Unsupported platform. "
                                            \o "Original Exception: " \o Str(e))
             ELSE e,
     loads |-> 1]

\* _NiRIO.__init__ with "except Exception as e".
NiRIO_init_CatchAll(sys, present, symbol, text) ==
    LET e == StatusCheckedLibrary_init(present, symbol, text) IN
    [exc |-> IF e # NoException THEN Handler(sys, LibraryNotFoundError(Str(e)))
             ELSE e,
     loads |-> 1]

\* _NiRIO.__init__ with the handler's last statement left out, so that it
\* falls off its end on a system it has no message for.
NiRIO_init_NoReraise(sys, present, symbol, text) ==
    LET e == StatusCheckedLibrary_init(present, symbol, text) IN
    [exc |-> IF e.cls = "LibraryNotFoundError"
             THEN IF sys \in {"windows", "linux", "darwin"}
                  THEN Handler(sys, e)
                  ELSE NoException
             ELSE e,
     loads |-> 1]

\* _NiRIO.__init__ with a handler that loads the library a second time
\* and carries on when that works.
NiRIO_init_Retry(sys, present, symbol, text) ==
    LET e == StatusCheckedLibrary_init(present, symbol, text) IN
    [exc |-> IF e.cls = "LibraryNotFoundError" THEN Handler(sys, e) ELSE e,
     loads |-> IF e.cls = "LibraryNotFoundError" THEN 2 ELSE 1]

\* _NiRIO.__init__: one call of the base class's __init__ inside try, and
\* the handler for the LibraryNotFoundError it may raise; any other
\* exception passes through.  Gives the exception the constructor ends
\* with and the number of loads it attempted.
NiRIO_init(sys, present, symbol, text) ==
    LET e == StatusCheckedLibrary_init(present, symbol, text) IN
    [exc |-> IF e.cls = "LibraryNotFoundError" THEN Handler(sys, e) ELSE e,
     loads |-> 1]

----------------------------------------------------------------------------
(* The binding's actions.                                                  *)

NoCall == [function |-> "", status |-> 0, tolerated |-> {},
           outcome |-> [band |-> "None", raises |-> FALSE, code |-> 0,
                        function |-> "", name |-> ""]]

\* _NiRIO(): the caller gets the object when __init__ returns, and the
\* exception when it raises.
Construct ==
    /\ construction = "pending"
    /\ LET r == NiRIO_init(system, libraryPresent, symbolPresent, loaderText) IN
        /\ construction' = IF r.exc = NoException THEN "returned" ELSE "raised"
        /\ binding' = IF r.exc = NoException THEN "Bound" ELSE "Unbound"
        /\ raised' = r.exc
        /\ loadAttempts' = loadAttempts + r.loads
    /\ UNCHANGED <<system, libraryPresent, symbolPresent, loaderText, calls,
                   lastCall, tableVars>>

\* A call of the bound function Route_Signal whose native function returns
\* status n, with the warning codes in tolerated accepted by the caller.
Call(n, tolerated) ==
    /\ construction = "returned"
    /\ binding = "Bound"
    /\ calls < MaxCalls
    /\ calls' = calls + 1
    /\ LET function == library_function_infos[1].pretty_name IN
          lastCall' = [function |-> function, status |-> n,
                       tolerated |-> tolerated,
                       outcome |-> CheckStatus(function, n, tolerated)]
    /\ UNCHANGED <<system, libraryPresent, symbolPresent, loaderText,
                   construction, binding, raised, loadAttempts, tableVars>>

----------------------------------------------------------------------------
(* Specifications.                                                         *)

\* The state before _NiRIO() is called, in any environment.
Init ==
    /\ system \in Systems
    /\ libraryPresent \in BOOLEAN
    /\ symbolPresent \in BOOLEAN
    /\ loaderText \in LoaderTexts
    /\ construction = "pending"
    /\ binding = "Unbound"
    /\ raised = NoException
    /\ loadAttempts = 0
    /\ calls = 0
    /\ lastCall = NoCall
    /\ fifoTable = fifo_properties_to_types
    /\ history = << >>

Next ==
    \/ Construct
    \/ \E n \in StatusCodes, tolerated \in SUBSET WarningCodes :
          Call(n, tolerated)

Spec == Init /\ [][Next]_vars

\* The state after the module is imported, before any lookup.
InitTypes ==
    /\ system = "linux"
    /\ libraryPresent = TRUE
    /\ symbolPresent = TRUE
    /\ loaderText = ""
    /\ construction = "pending"
    /\ binding = "Unbound"
    /\ raised = NoException
    /\ loadAttempts = 0
    /\ calls = 0
    /\ lastCall = NoCall
    /\ fifoTable = fifo_properties_to_types
    /\ history = << >>

NextTypes ==
    \/ \E k \in DataType : ReturnCtype(k)
    \/ \E k \in DataType : IsSigned(k)
    \/ \E p \in FifoProperty : FifoPropertyLookup(p)

SpecTypes == InitTypes /\ [][NextTypes]_vars

----------------------------------------------------------------------------
(* Properties of the tables, checked under SpecTypes.                      *)

SignedKinds == {"I8", "I16", "I32", "I64", "Sgl", "Dbl"}

UnsignedKinds == {"Bool", "U8", "U16", "U32", "U64", "Fxp", "Cluster"}

Lookups(op) == {i \in DOMAIN history : history[i].op = op}

\* C1: over the closed set of thirteen kinds, every isSigned(k) a caller
\* has seen is TRUE exactly for I8, I16, I32, I64, Sgl and Dbl, and FALSE
\* for Bool, U8, U16, U32, U64, Fxp and Cluster.
C1_isSigned ==
    /\ DataType = SignedKinds \cup UnsignedKinds
    /\ SignedKinds \cap UnsignedKinds = {}
    /\ \A i \in Lookups("isSigned") :
          /\ history[i].key \in SignedKinds => history[i].result = TRUE
          /\ history[i].key \in UnsignedKinds => history[i].result = FALSE

C1_Witness ==
    \E i, j \in Lookups("isSigned") :
        /\ history[i].key = "Dbl" /\ history[i].result = TRUE
        /\ history[j].key = "Fxp" /\ history[j].result = FALSE

U32Properties == {"BytesPerElement", "BufferAllocationGranularityElements"}

U64Properties == {"BufferSizeElements", "MirroredElements",
                  "ElementsCurrentlyAcquired"}

I32Properties == {"DmaBufferType", "FlowControl", "PreferredNumaNode"}

PtrProperties == {"DmaBuffer"}

ExpectedFifoKind(p) ==
    IF p \in U32Properties THEN "U32"
    ELSE IF p \in U64Properties THEN "U64"
    ELSE IF p \in I32Properties THEN "I32"
    ELSE IF p \in PtrProperties THEN "Ptr"
    ELSE "none"

\* C4: in every state the property-to-kind dict has exactly the nine
\* FifoProperty members as keys, each mapped to one FifoPropertyType: the
\* two U32, the three U64, the three I32 properties and DmaBuffer to Ptr;
\* no lookup changes it, and every lookup made gives that kind.
C4_FifoTable ==
    /\ DOMAIN fifoTable = FifoProperty
    /\ Cardinality(FifoProperty) = 9
    /\ \A p \in FifoProperty :
          fifoTable[p] \in FifoPropertyType /\ fifoTable[p] = ExpectedFifoKind(p)
    /\ \A i \in Lookups("_fifo_properties_to_types") :
          history[i].result = ExpectedFifoKind(history[i].key)

C4_Witness ==
    \E i, j \in Lookups("_fifo_properties_to_types") :
        /\ i < j
        /\ history[i].key = "BufferSizeElements" /\ history[i].result = "U64"
        /\ history[j].key = "DmaBuffer" /\ history[j].result = "Ptr"

\* What ctypes says of its types: integer or floating, signed, width.
SignedIntCtype(bits) ==
    CASE bits = 8 -> "c_int8" [] bits = 16 -> "c_int16"
      [] bits = 32 -> "c_int32" [] bits = 64 -> "c_int64"

UnsignedIntCtype(bits) ==
    CASE bits = 8 -> "c_uint8" [] bits = 16 -> "c_uint16"
      [] bits = 32 -> "c_uint32" [] bits = 64 -> "c_uint64"

IntegerCtypes == {SignedIntCtype(b) : b \in {8, 16, 32, 64}}
                 \cup {UnsignedIntCtype(b) : b \in {8, 16, 32, 64}}

\* The bit width a kind's name declares.
DeclaredBits(k) ==
    CASE k \in {"Bool", "I8", "U8"} -> 8
      [] k \in {"I16", "U16"} -> 16
      [] k \in {"I32", "U32", "Fxp", "Cluster", "Sgl"} -> 32
      [] k \in {"I64", "U64", "Dbl"} -> 64

\* C10: a kind's native type is the signed integer type of its declared
\* width for I8..I64, the unsigned one for Bool, U8..U64, Fxp and Cluster
\* (32 bits), c_float for Sgl and c_double for Dbl; and for every kind with
\* an integer native type, isSigned is TRUE exactly when that type is a
\* signed one.
C10_HalvesAgree ==
    \A i \in Lookups("_return_ctype") :
        LET k == history[i].key
            c == history[i].result
        IN  /\ k \in {"I8", "I16", "I32", "I64"}
                => c = SignedIntCtype(DeclaredBits(k))
            /\ k \in {"Bool", "U8", "U16", "U32", "U64", "Fxp", "Cluster"}
                => c = UnsignedIntCtype(DeclaredBits(k))
            /\ k = "Sgl" => c = "c_float"
            /\ k = "Dbl" => c = "c_double"
            /\ \A j \in Lookups("isSigned") :
                  history[j].key = k /\ c \in IntegerCtypes
                      => (history[j].result
                              <=> c \in {SignedIntCtype(b) : b \in {8, 16, 32, 64}})

C10_Witness ==
    \E i \in Lookups("_return_ctype"), j \in Lookups("isSigned") :
        /\ history[i].key = "Fxp" /\ history[i].result = "c_uint32"
        /\ history[j].key = "Fxp" /\ history[j].result = FALSE

----------------------------------------------------------------------------
(* Properties of the binding, checked under Spec.                          *)

RecognisedSystems == {"windows", "linux", "darwin"}

\* Whether the text t occurs in the text s.
Contains(s, t) ==
    \E i \in 1 .. (Len(s) - Len(t) + 1) : SubSeq(s, i, i + Len(t) - 1) = t

\* The exception the loader raised, as the handler received it.
LoaderException == LibraryNotFoundError(loaderText)

LoadFailed == construction # "pending" /\ ~libraryPresent

\* C2: when the load fails on windows, linux or darwin, the exception the
\* caller gets is a LibraryNotFoundError whose message contains the text of
\* the loader's exception and differs from the message either of the other
\* two systems gives for the same failure.
C2_PlatformMessages ==
    LoadFailed /\ system \in RecognisedSystems =>
        /\ raised.cls = "LibraryNotFoundError"
        /\ Contains(raised.msg, Str(LoaderException))
        /\ \A other \in RecognisedSystems \ {system} :
              raised.msg # Handler(other, LoaderException).msg

C2_Witness ==
    /\ LoadFailed
    /\ system = "darwin"
    /\ loaderText # ""
    /\ raised.cls = "LibraryNotFoundError"
    /\ Len(raised.msg) > Len(loaderText)

\* C3 as claimed: when the load fails on a system other than the three
\* recognised ones, the caller gets an exception that is not the loader's
\* own not-found error.
C3_Claimed_DistinctVariant ==
    LoadFailed /\ system \notin RecognisedSystems =>
        /\ raised.cls = "LibraryNotFoundError"
        /\ raised # LoaderException

\* C3 amended: when the load fails on darwin, the one system the handler
\* knows to have no native support, the caller gets a LibraryNotFoundError
\* of its own saying that OSX is not yet supported; when it fails on a
\* system other than windows, linux and darwin, the caller gets the
\* loader's own LibraryNotFoundError unchanged, with no text added.
C3_Amended_LoaderErrorReraised ==
    /\ LoadFailed /\ system = "darwin" =>
          /\ construction = "raised"
          /\ raised.cls = "LibraryNotFoundError"
          /\ raised # LoaderException
          /\ Contains(raised.msg, "we don't yet support using RIO Devices on OSX")
    /\ LoadFailed /\ system \notin RecognisedSystems =>
          /\ construction = "raised"
          /\ raised = LoaderException
          /\ Str(raised) = loaderText

C3_Witness ==
    /\ LoadFailed
    /\ system = "java"
    /\ loaderText # ""
    /\ raised = LoaderException

\* C6: a call with no warning code tolerated returns normally exactly when
\* the status is 0; a positive status raises a Warning condition and a
\* negative one an Error condition, and the condition carries the status
\* and the function's name whether or not the registry knows the status.
C6_StatusDecides ==
    lastCall # NoCall /\ lastCall.tolerated = {} =>
        LET n == lastCall.status
            o == lastCall.outcome
        IN  /\ o.raises <=> n # 0
            /\ n = 0 => o.band = "Success"
            /\ n > 0 => o.band = "Warning"
            /\ n < 0 => o.band = "Error"
            /\ o.code = n
            /\ o.function = lastCall.function
            /\ o.function = "Route_Signal"

C6_Witness ==
    /\ lastCall # NoCall
    /\ lastCall.tolerated = {}
    /\ lastCall.status > 0
    /\ lastCall.status \notin DOMAIN KnownCodes
    /\ lastCall.outcome.raises
    /\ lastCall.outcome.band = "Warning"

SymbolMissing == construction # "pending" /\ libraryPresent /\ ~symbolPresent

\* C7: when the library loads and niFlexRio_RouteSignal is not in it, the
\* constructor raises, the caller gets no bound object, no call is ever
\* made, and the exception is not a LibraryNotFoundError: it is the one the
\* symbol resolution raised.
C7_MissingSymbolFails ==
    SymbolMissing =>
        /\ construction = "raised"
        /\ binding = "Unbound"
        /\ calls = 0
        /\ lastCall = NoCall
        /\ raised.cls # "LibraryNotFoundError"
        /\ raised = StatusCheckedLibrary_init(TRUE, FALSE, loaderText)

C7_Witness ==
    /\ SymbolMissing
    /\ system = "linux"
    /\ raised.cls = "MissingSymbolError"

\* C8: the binding is Unbound or Bound; a step never takes it from Bound
\* to Unbound; it goes from Unbound to Bound only in the step in which a
\* construction with the library loaded and the symbol resolved returns,
\* which happens once at most; and a call is made only while it is Bound.
C8_BindingLifecycle ==
    [][ /\ binding \in {"Unbound", "Bound"}
        /\ binding' \in {"Unbound", "Bound"}
        /\ binding = "Bound" => binding' = "Bound"
        /\ binding = "Unbound" /\ binding' = "Bound" =>
              /\ construction = "pending" /\ construction' = "returned"
              /\ loadAttempts = 0
              /\ libraryPresent /\ symbolPresent
        /\ construction # "pending" => construction' = construction
        /\ calls' # calls \/ lastCall' # lastCall =>
              binding = "Bound" /\ construction = "returned"
      ]_vars

C8_Witness ==
    /\ binding = "Bound"
    /\ construction = "returned"
    /\ calls = MaxCalls
    /\ lastCall.outcome.raises

\* C9: when the load fails, whatever the system, the constructor has raised
\* a LibraryNotFoundError, the caller has no bound object and can make no
\* call, and the load was attempted once.
C9_LoadFailurePropagates ==
    LoadFailed =>
        /\ construction = "raised"
        /\ raised.cls = "LibraryNotFoundError"
        /\ binding = "Unbound"
        /\ calls = 0
        /\ loadAttempts = 1

C9_Witness ==
    /\ LoadFailed
    /\ system = ""
    /\ raised.cls = "LibraryNotFoundError"
    /\ loadAttempts = 1

====
